---- MODULE Spec2Model ----
(***************************************************************************)
(* Model of create-iso.py: the build pipeline of main(), its helpers and   *)
(* the working directory it shares with earlier and later invocations.     *)
(* One behaviour is a sequence of invocations of the script, each started  *)
(* with its own command line, run against the files the earlier ones left. *)
(***************************************************************************)
EXTENDS Integers, Sequences, FiniteSets, TLC

(* ---------------------------- bounds ----------------------------------- *)
MaxRuns == 2        \* invocations of the script in one behaviour
MaxRelease == 2     \* upstream releases published over time
MaxUsers == 2       \* --github-ssh-user options on one command line
MaxLines == 1       \* lines in one .keys response body
NumKeys == 1        \* distinct public keys the identity service can serve
KeyLines == 1       \* lines in one .keys response body, in SpecKeys
KeyCount == 2       \* distinct public keys, in SpecKeys
MaxEntries == 7     \* directory entries to choose a manifests directory from

Releases == 1..MaxRelease
Keys == 1..NumKeys
Users == {"alice", "bob"}
BlankLine == 0
Lines == Keys \cup {BlankLine}

(* ---------------------------- values ----------------------------------- *)
NoPassword == "None"                 \* args.password when the positional is omitted
Passwords == {NoPassword, "", "hunter2"}
NoHash == "None"

\* A file's content: what kind of file it is, the run that wrote it and, for
\* images, the upstream release it was built from.
NoFile == [kind |-> "absent", run |-> 0, rel |-> 0]
File(k, r, v) == [kind |-> k, run |-> r, rel |-> v]

SeqsUpTo(S, n) == UNION {[1..m -> S] : m \in 0..n}

RECURSIVE SeqToSet(_)
SeqToSet(s) == IF s = <<>> THEN {} ELSE {Head(s)} \cup SeqToSet(Tail(s))

\* min of a non-empty set of integers
SetMin(S) == CHOOSE x \in S : \A y \in S : x <= y

\* Faulty variant: the keys come out in descending order.
RECURSIVE sorted_Descending(_)
sorted_Descending(S) ==
    IF S = {} THEN <<>> ELSE sorted_Descending(S \ {SetMin(S)}) \o <<SetMin(S)>>

\* sorted(): ascending list of the elements of a set
RECURSIVE sorted(_)
sorted(S) == IF S = {} THEN <<>> ELSE <<SetMin(S)>> \o sorted(S \ {SetMin(S)})

(* ---------------------------- state ------------------------------------ *)
VARIABLES
    pc,               \* position of the running process in main(), or "idle"/"exited"
    run,              \* number of the current invocation
    latest,           \* latest release the upstream stream metadata announces
    fedora_iso,       \* content of fedora-coreos.iso in the working directory
    minimal_iso,      \* content of minimal.iso in the working directory
    downloads,        \* content of the downloader's own file, per release
    output_iso,       \* content of /output/ruddervirtvirt-install.iso
    output_ignition,  \* content of server.bu.ign
    temps,            \* server_rendered_*.bu files that exist, by creating run
    args,             \* parsed command line: the password
    pending,          \* args.github_ssh_user: the usernames the for loop at
                      \* line 218 has still to visit
    ssh_keys,         \* ssh_keys list built by the loop
    creds,            \* password_hash and the key set after lines 221-228
    render_context,   \* arguments of the template_butane call in progress
    temp_path,        \* temp_path inside template_butane (0: none yet)
    temp_butane_file, \* temp_butane_file of main (0: None)
    release,          \* release resolved at line 279 (0: none yet)
    status,           \* exit status (-1 while running)
    exc,              \* what ended the try block
    hist,             \* history of the current run (see NewHist)
    manifests,        \* the manifests directory next to the template
    names             \* what a manifest_files() call gave (see Result)

fsvars == <<fedora_iso, minimal_iso, downloads, output_iso, output_ignition, temps>>
procvars == <<args, pending, ssh_keys, creds, render_context, temp_path,
              temp_butane_file, release>>
dirvars == <<manifests, names>>
vars == <<pc, run, latest, fsvars, procvars, status, exc, hist, dirvars>>

\* History of one run, written by the actions and read only by the properties.
NewHist ==
    [calls |-> <<>>,          \* tool runs and release-metadata requests, in order
     stagesOK |-> {},         \* stages that completed successfully
     secret |-> FALSE,        \* a non-empty password was on the command line
     fetched |-> FALSE,       \* a key fetch was made
     keysServed |-> FALSE,    \* some identity was answered 200 with a key
     served |-> {},           \* the keys the identities were answered with
     resolved |-> <<>>,       \* releases the stream metadata answered with
     undefinedRef |-> FALSE,  \* the rendered template names a variable the
                              \* render context lacks
     rendered |-> FALSE,      \* the renderer was called
     startOutput |-> NoFile,  \* output image when the run started
     startFedora |-> NoFile,  \* cached base image when the run started
     startMinimal |-> NoFile, \* minimal image when the run started
     acquire |-> "none",      \* how stage 5 got the base image
     atAcquire |-> <<>>,      \* cache file when the run reached stage 5
     extract |-> <<>>,        \* (base image, rootfs release) given to extract
     customizeOutput |-> <<>>]\* what was at the output path when customize ran

Call(t, ok) == [tool |-> t, ok |-> ok]
Logged(t, ok) == [hist EXCEPT !.calls = Append(@, Call(t, ok))]

\* A path under the template directory: absent, a regular file, or a
\* directory with its entries.
NoDirectory == [kind |-> "absent", entries |-> {}]
NoResult == [state |-> "none", value |-> <<>>]

\* No run has started; the working directory holds no artifact.
InitPipeline ==
    /\ pc = "idle"
    /\ run = 0
    /\ latest = 1
    /\ fedora_iso = NoFile
    /\ minimal_iso = NoFile
    /\ downloads = [r \in Releases |-> NoFile]
    /\ output_iso = NoFile
    /\ output_ignition = NoFile
    /\ temps = {}
    /\ args = [password |-> NoPassword]
    /\ pending = <<>>
    /\ ssh_keys = <<>>
    /\ creds = [password_hash |-> NoHash, ssh_keys |-> {}]
    /\ render_context = <<>>
    /\ temp_path = 0
    /\ temp_butane_file = 0
    /\ release = 0
    /\ status = -1
    /\ exc = "none"
    /\ hist = NewHist

Init ==
    /\ InitPipeline
    /\ manifests = NoDirectory
    /\ names = NoResult

(* ------------------- helpers translated from the source ---------------- *)

\* `if password:` (line 223): None and the empty string are both falsy.
IsTruthy(password) == password # NoPassword /\ password # ""

\* hash_password_sha512 (lines 45-48): sha512_crypt output is "$6$..." and is
\* only produced for a non-empty plaintext.
hash_password_sha512(plaintext) == "$6$" \o plaintext

hash_password_sha512_raises(plaintext) == plaintext = ""

\* Responses of the identity service as fetch_github_ssh_keys sees them.
\*   kind "http"     : urlopen returned a response with this status and body
\*   kind "URLError" : urlopen raised URLError (HTTPError, the error urlopen
\*                     raises for 4xx/5xx, is a subclass of it)
\*   kind "ConnectionReset": the connection broke after the request was
\*                     sent (while waiting for the status line or reading the
\*                     body, lines 27-29); what is raised then is a
\*                     ConnectionResetError or an http.client exception, not a
\*                     URLError, and the try at lines 26-41 has no handler
\*                     for it
Responses ==
    [kind : {"http"}, code : {200, 204}, body : SeqsUpTo(Lines, MaxLines)]
    \cup [kind : {"URLError", "ConnectionReset"}, code : {0}, body : {<<>>}]

\* Lines 29-30: split the body in lines, strip them, drop the blank ones.
RECURSIVE StripNonBlank(_)
StripNonBlank(body) ==
    IF body = <<>> THEN <<>>
    ELSE IF Head(body) = BlankLine THEN StripNonBlank(Tail(body))
    ELSE <<Head(body)>> \o StripNonBlank(Tail(body))

\* fetch_github_ssh_keys (lines 24-41), for the responses it returns from.
fetch_github_ssh_keys(resp) ==
    IF resp.kind = "http" /\ resp.code = 200 THEN StripNonBlank(resp.body)
    ELSE <<>>

fetch_github_ssh_keys_raises(resp) == resp.kind = "ConnectionReset"

\* Faulty variant: only an omitted password counts as no secret.
CredentialsMissing_OnlyNone(password, keys) == password = NoPassword /\ keys = {}

\* Lines 223-228: the if/elif/else that decides the credential set.
CredentialsMissing(password, keys) == ~IsTruthy(password) /\ keys = {}

PasswordHashFor(password) ==
    IF IsTruthy(password) THEN hash_password_sha512(password) ELSE NoHash

\* Faulty variant: the return code is not looked at.
run_command_exits_Unchecked(check, returncode) == FALSE

\* run_command (lines 113-127): sys.exit(1) when check and a non-zero code.
run_command_exits(check, returncode) == check /\ returncode # 0

\* os.path.exists
exists(f) == f # NoFile

\* Faulty variant: the cache is never consulted.
NeedsDownload_Always(cache) == TRUE

\* Line 252: `if not os.path.exists(fedora_iso)`
NeedsDownload(cache) == ~exists(cache)

\* Faulty variant: the file is left where it is.
RemoveIfExists_Kept(f) == f

\* `if os.path.exists(p): os.remove(p)`
RemoveIfExists(f) == IF exists(f) THEN NoFile ELSE f

\* Faulty variant: the URL names no release.
build_live_rootfs_url_Unversioned(stream, arch, rel) ==
    [stream |-> stream, arch |-> arch, release |-> 0,
     filename |-> <<"fedora-coreos-", 0, "-live-rootfs.", arch, ".img">>]

\* build_live_rootfs_url (lines 159-170)
build_live_rootfs_url(stream, arch, rel) ==
    [stream |-> stream, arch |-> arch, release |-> rel,
     filename |-> <<"fedora-coreos-", rel, "-live-rootfs.", arch, ".img">>]

stream == "stable"
arch == "x86_64"

\* glob.glob("*.iso") in the working directory (line 267): the names there
\* that end in .iso; the output image lives in /output and is not among them.
MinimalName == [name |-> "minimal.iso", rel |-> 0]
FedoraName == [name |-> "fedora-coreos.iso", rel |-> 0]
DownloadName(r) == [name |-> "fedora-coreos-live.x86_64.iso", rel |-> r]
glob_iso ==
    (IF exists(fedora_iso) THEN {FedoraName} ELSE {})
    \cup (IF exists(minimal_iso) THEN {MinimalName} ELSE {})
    \cup {DownloadName(r) : r \in {v \in Releases : exists(downloads[v])}}

ContentOf(n) ==
    IF n = FedoraName THEN fedora_iso
    ELSE IF n = MinimalName THEN minimal_iso
    ELSE downloads[n.rel]

(* ---------------------------- actions ---------------------------------- *)

locals == <<args, pending, ssh_keys, creds, render_context, temp_path, release>>

\* Exceptions the handler at line 328 catches; SystemExit and
\* KeyboardInterrupt are not among them.
Exceptions ==
    {"ValueError", "ConnectionResetError", "TemplateError", "OSError",
     "RuntimeError"}

\* Faulty variant: the except clauses report the error and return normally.
Raise_Swallowed(kind) ==
    /\ pc' = "finally"
    /\ exc' = kind
    /\ status' = 0
    /\ args' = [password |-> NoPassword]
    /\ pending' = <<>>
    /\ ssh_keys' = <<>>
    /\ creds' = [password_hash |-> NoHash, ssh_keys |-> {}]
    /\ render_context' = <<>>
    /\ temp_path' = 0
    /\ release' = 0

\* The try block is left by an exception, by SystemExit or by
\* KeyboardInterrupt: the except clause for it, if there is one, calls
\* sys.exit(1) (lines 325-330) and the finally clause runs next.  The handlers
\* and the finally clause read temp_butane_file only, the other locals are
\* forgotten here.
Raise(kind) ==
    /\ pc' = "finally"
    /\ exc' = kind
    /\ status' = 1
    /\ args' = [password |-> NoPassword]
    /\ pending' = <<>>
    /\ ssh_keys' = <<>>
    /\ creds' = [password_hash |-> NoHash, ssh_keys |-> {}]
    /\ render_context' = <<>>
    /\ temp_path' = 0
    /\ release' = 0

\* The statement completed: on to the next one.
Goto(next) ==
    /\ pc' = next
    /\ UNCHANGED <<exc, status>>

StageDone(h, stage) == [h EXCEPT !.stagesOK = @ \cup {stage}]

\* The script is started: argparse (lines 174-204) and lines 206-214.
StartRun(password, users) ==
    /\ pc \in {"idle", "exited"}
    /\ run < MaxRuns
    /\ run' = run + 1
    /\ pc' = "fetch"
    /\ args' = [password |-> password]
    /\ pending' = users
    /\ ssh_keys' = <<>>
    /\ creds' = [password_hash |-> NoHash, ssh_keys |-> {}]
    /\ render_context' = <<>>
    /\ temp_path' = 0
    /\ temp_butane_file' = 0
    /\ release' = 0
    /\ status' = -1
    /\ exc' = "none"
    /\ hist' = [NewHist EXCEPT !.secret = (password \notin {NoPassword, ""}),
                               !.startOutput = output_iso,
                               !.startFedora = fedora_iso,
                               !.startMinimal = minimal_iso]
    /\ UNCHANGED <<latest, dirvars, fsvars>>

\* One iteration of the loop at lines 218-219.
FetchKeys(resp) ==
    /\ pc = "fetch"
    /\ pending # <<>>
    /\ hist' = [hist EXCEPT
                   !.fetched = TRUE,
                   !.keysServed = @ \/
                      (resp.kind = "http" /\ resp.code = 200
                       /\ \E n \in DOMAIN resp.body : resp.body[n] # BlankLine),
                   !.served = @ \cup
                      (IF resp.kind = "http" /\ resp.code = 200
                       THEN {resp.body[n] : n \in DOMAIN resp.body} \ {BlankLine}
                       ELSE {})]
    /\ IF fetch_github_ssh_keys_raises(resp)
       THEN Raise("ConnectionResetError")
       ELSE /\ ssh_keys' = ssh_keys \o fetch_github_ssh_keys(resp)
            /\ pending' = Tail(pending)
            /\ Goto("fetch")
            /\ UNCHANGED <<args, creds, render_context, temp_path, release>>
    /\ UNCHANGED <<run, latest, dirvars, fsvars, temp_butane_file>>

\* urllib.request.urlopen on an endpoint that accepts the request and never
\* answers: with timeout=None (the default) the call blocks for ever, with a
\* timeout it raises (TimeoutError, an OSError).  A timeout is <<>> for
\* None or <<seconds>>.
NoTimeout == <<>>
urlopen_no_answer(timeout) == IF timeout = NoTimeout THEN "blocks" ELSE "raises"

\* Line 27: urlopen(url), no timeout argument.
FetchKeysTimeout == NoTimeout

\* Lines 130-132: fetch_json(url, timeout=20) passes its timeout on.
FetchJsonTimeout == <<20>>

\* One iteration of the loop at lines 218-219 when github.com never answers.
FetchKeysNoAnswer ==
    /\ pc = "fetch"
    /\ pending # <<>>
    /\ hist' = [hist EXCEPT !.fetched = TRUE]
    /\ IF urlopen_no_answer(FetchKeysTimeout) = "blocks"
       THEN Goto("blocked") /\ UNCHANGED locals
       ELSE Raise("OSError")
    /\ UNCHANGED <<run, latest, dirvars, fsvars, temp_butane_file>>

\* Lines 221-228, after the loop: ssh_keys becomes a set and the credential
\* set is decided.
ResolveCredentials ==
    /\ pc = "fetch"
    /\ pending = <<>>
    /\ LET keys == SeqToSet(ssh_keys) IN
       IF CredentialsMissing(args.password, keys)
          \/ (IsTruthy(args.password) /\ hash_password_sha512_raises(args.password))
       THEN /\ Raise("ValueError")
            /\ UNCHANGED hist
       ELSE /\ creds' = [password_hash |-> PasswordHashFor(args.password),
                         ssh_keys |-> keys]
            /\ ssh_keys' = <<>>
            /\ hist' = StageDone(hist, "credentials")
            /\ Goto("render")
            /\ UNCHANGED <<args, pending, render_context, temp_path, release>>
    /\ UNCHANGED <<run, latest, dirvars, fsvars, temp_butane_file>>

(* ----------------------- manifest_files (lines 70-87) ------------------- *)

\* A file name is the sequence of its characters.  Alphabet lists the
\* characters the names below use, in code point order, which is the order
\* Python compares strings by.
Alphabet == <<".", "A", "L", "M", "Y", "a", "b", "l", "m", "t", "x", "y">>
ord(c) == CHOOSE n \in DOMAIN Alphabet : Alphabet[n] = c

\* str.lower()
lower(name) ==
    [n \in DOMAIN name |->
        CASE name[n] = "A" -> "a"
          [] name[n] = "L" -> "l"
          [] name[n] = "M" -> "m"
          [] name[n] = "Y" -> "y"
          [] OTHER -> name[n]]

\* a < b on strings: the first differing character decides, a proper prefix
\* is smaller.
RECURSIVE str_less(_, _)
str_less(a, b) ==
    IF b = <<>> THEN FALSE
    ELSE IF a = <<>> THEN TRUE
    ELSE IF Head(a) = Head(b) THEN str_less(Tail(a), Tail(b))
    ELSE ord(Head(a)) < ord(Head(b))

\* PurePath.suffix: the name from its last dot on, or "" when there is no
\* dot, or the last dot is the first or the last character.
suffix(name) ==
    LET dots == {n \in DOMAIN name : name[n] = "."} IN
    IF dots = {} THEN <<>>
    ELSE LET i == CHOOSE n \in dots : \A m \in dots : m <= n IN
         IF 1 < i /\ i < Len(name) THEN SubSeq(name, i, Len(name)) ELSE <<>>

\* Faulty variant: hidden files are listed too.
startswith_dot_Never(name) == FALSE

\* entry.name.startswith(".") (line 81)
startswith_dot(name) == name # <<>> /\ name[1] = "."

\* The tuple at line 83.
YamlSuffixes == {<<".", "y", "a", "m", "l">>, <<".", "y", "m", "l">>}

\* sorted(names) (line 87): names are distinct, the smallest comes first.
RECURSIVE sorted_names(_)
sorted_names(S) ==
    IF S = {} THEN <<>>
    ELSE LET least == CHOOSE a \in S : \A b \in S \ {a} : str_less(a, b)
         IN  <<least>> \o sorted_names(S \ {least})

\* What a call gives: a returned list or a raised ValueError.
Returned(value) == [state |-> "returned", value |-> value]
Raised == [state |-> "raised", value |-> <<>>]

\* manifest_files(rel_dir) on the directory `dir` (lines 70-87).  iterdir()
\* yields the entries in arbitrary order; sorted() makes the order of the
\* appends irrelevant.
manifest_files(dir) ==
    IF dir.kind = "absent" THEN Returned(<<>>)
    ELSE IF dir.kind # "dir" THEN Raised
    ELSE Returned(sorted_names(
             {e.name : e \in {x \in dir.entries :
                                 /\ x.kind = "file"
                                 /\ ~startswith_dot(x.name)
                                 /\ suffix(lower(x.name)) \in YamlSuffixes}}))

\* Entries a manifests directory is made of: regular files and a
\* subdirectory, hidden or not, with and without a YAML suffix.
EntryPool ==
    << [name |-> <<"b", ".", "y", "m", "l">>, kind |-> "file"],
       [name |-> <<"a", ".", "y", "a", "m", "l">>, kind |-> "file"],
       [name |-> <<".", "a", ".", "y", "a", "m", "l">>, kind |-> "file"],
       [name |-> <<"A", ".", "Y", "A", "M", "L">>, kind |-> "file"],
       [name |-> <<"b", ".", "t", "x", "t">>, kind |-> "file"],
       [name |-> <<"m", ".", "y", "a", "m", "l">>, kind |-> "dir"],
       [name |-> <<"y", "a", "m", "l">>, kind |-> "file"],
       [name |-> <<"a", ".", "b", ".", "y", "m", "l">>, kind |-> "file"],
       [name |-> <<"a", ".", "y", "m", "l", ".">>, kind |-> "file"] >>

Directories ==
    {NoDirectory, [kind |-> "file", entries |-> {}]}
    \cup {[kind |-> "dir", entries |-> S] :
            S \in SUBSET {EntryPool[n] : n \in DOMAIN EntryPool \cap 1..MaxEntries}}

\* Lines 61-65: Environment() is given no undefined= argument, so a
\* reference to a missing variable evaluates to jinja2's default Undefined,
\* which prints as the empty string; only StrictUndefined raises.
EnvUndefined == "Undefined"
UndefinedRaises(undef) == undef /\ EnvUndefined = "StrictUndefined"

\* The call at lines 230-236 and template_butane up to template.render
\* (lines 58-98), with ssh_keys=sorted(ssh_keys).  The template, a file it
\* slurps or its syntax may be at fault (~ok), and it may print a variable
\* the render context lacks (undef).  main reads neither args.password
\* nor ssh_keys nor password_hash after this call.
Render(ok, undef) ==
    /\ pc = "render"
    /\ hist' = [hist EXCEPT !.rendered = TRUE, !.undefinedRef = undef]
    /\ IF ok /\ ~UndefinedRaises(undef)
       THEN /\ render_context' = <<[password_hash |-> creds.password_hash,
                                    ssh_keys |-> sorted(creds.ssh_keys)]>>
            /\ args' = [password |-> NoPassword]
            /\ creds' = [password_hash |-> NoHash, ssh_keys |-> {}]
            /\ Goto("mkstemp")
            /\ UNCHANGED <<pending, ssh_keys, temp_path, release>>
       ELSE Raise("TemplateError")
    /\ UNCHANGED <<run, latest, dirvars, fsvars, temp_butane_file>>

\* tempfile.mkstemp (line 100): a fresh, uniquely named file.
MkStemp ==
    /\ pc = "mkstemp"
    /\ temp_path' = run
    /\ temps' = temps \cup {run}
    /\ Goto("write")
    /\ UNCHANGED <<run, latest, dirvars, fedora_iso, minimal_iso, downloads, output_iso,
                   output_ignition, args, pending, ssh_keys, creds,
                   render_context, temp_butane_file, release, hist>>

\* Lines 101-110 and the assignments at lines 230 and 237.
\*   "ok"     the document is written, the path returned
\*   "fdopen" os.fdopen raises: the handler closes the descriptor, unlinks
\*            the file and re-raises
\*   "write"  f.write or the close at the end of the with block raises: the
\*            descriptor is already closed by then, so os.close (line 107)
\*            raises OSError and the unlink at line 109 is not reached
WriteRendered(outcome) ==
    /\ pc = "write"
    /\ CASE outcome = "ok" ->
              /\ temp_butane_file' = temp_path
              /\ render_context' = <<>>
              /\ temp_path' = 0
              /\ hist' = StageDone(hist, "render")
              /\ Goto("compile")
              /\ UNCHANGED <<temps, args, pending, ssh_keys, creds, release>>
         [] outcome = "fdopen" ->
              /\ temps' = temps \ {temp_path}
              /\ Raise("OSError")
              /\ UNCHANGED <<temp_butane_file, hist>>
         [] outcome = "write" ->
              /\ Raise("OSError")
              /\ UNCHANGED <<temps, temp_butane_file, hist>>
    /\ UNCHANGED <<run, latest, dirvars, fedora_iso, minimal_iso, downloads, output_iso,
                   output_ignition>>

\* Lines 242-245: butane --pretty --strict <rendered> --output server.bu.ign
Compile(returncode) ==
    /\ pc = "compile"
    /\ hist' = IF returncode = 0 THEN StageDone(Logged("butane", TRUE), "compile")
               ELSE Logged("butane", FALSE)
    /\ output_ignition' = IF returncode = 0 THEN File("ign", run, 0)
                          ELSE output_ignition
    /\ IF run_command_exits(TRUE, returncode) THEN Raise("SystemExit")
       ELSE Goto("validate") /\ UNCHANGED locals
    /\ UNCHANGED <<run, latest, dirvars, fedora_iso, minimal_iso, downloads, output_iso,
                   temps, temp_butane_file>>

\* Line 250: ignition-validate server.bu.ign
Validate(returncode) ==
    /\ pc = "validate"
    /\ hist' = IF returncode = 0
               THEN [StageDone(Logged("ignition-validate", TRUE), "validate")
                        EXCEPT !.atAcquire = <<fedora_iso>>]
               ELSE Logged("ignition-validate", FALSE)
    /\ IF run_command_exits(TRUE, returncode) THEN Raise("SystemExit")
       ELSE Goto("acquire") /\ UNCHANGED locals
    /\ UNCHANGED <<run, latest, dirvars, fsvars, temp_butane_file>>

\* Faulty variant: a cached image is replaced by the image of the latest
\* release before it is used.
ReuseCachedImage_Refreshed ==
    /\ pc = "acquire"
    /\ ~NeedsDownload(fedora_iso)
    /\ fedora_iso' = File("base", run, latest)
    /\ hist' = StageDone([hist EXCEPT !.acquire = "reused"], "acquire")
    /\ Goto("rm_output")
    /\ UNCHANGED <<run, latest, dirvars, minimal_iso, downloads, output_iso,
                   output_ignition, temps, locals, temp_butane_file>>

\* Line 252 when the cache file exists: nothing is downloaded.
ReuseCachedImage ==
    /\ pc = "acquire"
    /\ ~NeedsDownload(fedora_iso)
    /\ hist' = StageDone([hist EXCEPT !.acquire = "reused"], "acquire")
    /\ Goto("rm_output")
    /\ UNCHANGED <<run, latest, dirvars, fsvars, locals, temp_butane_file>>

\* Lines 252-266 when it does not: coreos-installer download.  The tool
\* writes its image under its own name (wrote) or leaves nothing behind.
Download(returncode, wrote) ==
    /\ pc = "acquire"
    /\ NeedsDownload(fedora_iso)
    /\ returncode # 0 => ~wrote
    /\ hist' = Logged("download", returncode = 0)
    /\ downloads' = IF wrote
                    THEN [downloads EXCEPT ![latest] = File("base", run, latest)]
                    ELSE downloads
    /\ IF run_command_exits(TRUE, returncode) THEN Raise("SystemExit")
       ELSE Goto("locate") /\ UNCHANGED locals
    /\ UNCHANGED <<run, latest, dirvars, fedora_iso, minimal_iso, output_iso,
                   output_ignition, temps, temp_butane_file>>

\* Lines 267-274: the first name glob returns is renamed to the cache name;
\* glob returns the names in directory order, so the first one is any of them.
LocateDownloaded ==
    /\ pc = "locate"
    /\ IF glob_iso = {}
       THEN /\ Raise("SystemExit")
            /\ UNCHANGED <<fedora_iso, minimal_iso, downloads, hist>>
       ELSE \E downloaded_iso \in glob_iso :
            /\ fedora_iso' = ContentOf(downloaded_iso)
            /\ minimal_iso' = IF downloaded_iso = MinimalName THEN NoFile
                              ELSE minimal_iso
            /\ downloads' = IF downloaded_iso \notin {MinimalName, FedoraName}
                            THEN [downloads EXCEPT ![downloaded_iso.rel] = NoFile]
                            ELSE downloads
            /\ hist' = StageDone([hist EXCEPT !.acquire = "downloaded"], "acquire")
            /\ Goto("rm_output")
            /\ UNCHANGED locals
    /\ UNCHANGED <<run, latest, dirvars, output_iso, output_ignition, temps,
                   temp_butane_file>>

\* Faulty variant: the old output image is left in place.
RemoveOldOutput_Skipped ==
    /\ pc = "rm_output"
    /\ Goto("resolve")
    /\ UNCHANGED <<run, latest, dirvars, fsvars, locals, temp_butane_file, hist>>

\* Lines 276-277.
RemoveOldOutput ==
    /\ pc = "rm_output"
    /\ output_iso' = RemoveIfExists(output_iso)
    /\ Goto("resolve")
    /\ UNCHANGED <<run, latest, dirvars, fedora_iso, minimal_iso, downloads,
                   output_ignition, temps, locals, temp_butane_file, hist>>

\* Lines 279-280: resolve_latest_fcos_release; fetch_json raises when the
\* document is unreachable, not 200 or not JSON, and the resolver raises
\* RuntimeError when the release field is missing.
ResolveRelease(ok) ==
    /\ pc = "resolve"
    /\ IF ok
       THEN /\ release' = latest
            /\ hist' = [StageDone(Logged("stream-metadata", TRUE), "resolve")
                           EXCEPT !.resolved = Append(@, latest)]
            /\ Goto("rm_minimal")
            /\ UNCHANGED <<args, pending, ssh_keys, creds, render_context,
                           temp_path>>
       ELSE /\ hist' = Logged("stream-metadata", FALSE)
            /\ Raise("RuntimeError")
    /\ UNCHANGED <<run, latest, dirvars, fsvars, temp_butane_file>>

\* Line 279 when the stream metadata service never answers.
ResolveReleaseNoAnswer ==
    /\ pc = "resolve"
    /\ hist' = Logged("stream-metadata", FALSE)
    /\ IF urlopen_no_answer(FetchJsonTimeout) = "blocks"
       THEN Goto("blocked") /\ UNCHANGED locals
       ELSE Raise("OSError")
    /\ UNCHANGED <<run, latest, dirvars, fsvars, temp_butane_file>>

\* Lines 284-286.
RemoveOldMinimal ==
    /\ pc = "rm_minimal"
    /\ minimal_iso' = RemoveIfExists(minimal_iso)
    /\ Goto("extract")
    /\ UNCHANGED <<run, latest, dirvars, fedora_iso, downloads, output_iso,
                   output_ignition, temps, locals, temp_butane_file, hist>>

\* Lines 288-299: coreos-installer iso extract minimal-iso.  The tool writes
\* minimal.iso when it succeeds and leaves nothing behind when it fails.
Extract(returncode) ==
    /\ pc = "extract"
    /\ LET h == [Logged("extract", returncode = 0) EXCEPT !.extract = Append(@,
                   [base |-> fedora_iso,
                    rootfs_url |-> build_live_rootfs_url(stream, arch, release)])]
       IN hist' = IF returncode = 0 THEN StageDone(h, "extract") ELSE h
    /\ minimal_iso' = IF returncode = 0 THEN File("minimal", run, 0)
                      ELSE minimal_iso
    /\ IF run_command_exits(TRUE, returncode) THEN Raise("SystemExit")
       ELSE Goto("customize") /\ UNCHANGED locals
    /\ UNCHANGED <<run, latest, dirvars, fedora_iso, downloads, output_iso,
                   output_ignition, temps, temp_butane_file>>

\* Lines 301-315: coreos-installer iso customize -f ... -o <output> minimal.iso
\* The tool writes the output image when it succeeds.
Customize(returncode) ==
    /\ pc = "customize"
    /\ LET h == [Logged("customize", returncode = 0)
                   EXCEPT !.customizeOutput = Append(@, output_iso)]
       IN hist' = IF returncode = 0 THEN StageDone(h, "customize") ELSE h
    /\ output_iso' = IF returncode = 0 THEN File("output", run, 0)
                     ELSE output_iso
    /\ IF run_command_exits(TRUE, returncode) THEN Raise("SystemExit")
       ELSE Goto("rm_minimal_end") /\ UNCHANGED locals
    /\ UNCHANGED <<run, latest, dirvars, fedora_iso, minimal_iso, downloads,
                   output_ignition, temps, temp_butane_file>>

\* Lines 317-318.
RemoveMinimal ==
    /\ pc = "rm_minimal_end"
    /\ minimal_iso' = RemoveIfExists(minimal_iso)
    /\ Goto("rm_fedora_end")
    /\ UNCHANGED <<run, latest, dirvars, fedora_iso, downloads, output_iso,
                   output_ignition, temps, locals, temp_butane_file, hist>>

\* Lines 320-323: the cache file is removed, the try block ends normally;
\* only temp_butane_file is read after it.
RemoveFedora ==
    /\ pc = "rm_fedora_end"
    /\ fedora_iso' = RemoveIfExists(fedora_iso)
    /\ pc' = "finally"
    /\ status' = 0
    /\ release' = 0
    /\ UNCHANGED <<run, latest, dirvars, minimal_iso, downloads, output_iso,
                   output_ignition, temps, args, pending, ssh_keys, creds,
                   render_context, temp_path, temp_butane_file, exc, hist>>

\* Positions inside the try block (lines 216-323).
TryBlock ==
    {"fetch", "render", "mkstemp", "write", "compile", "validate", "acquire",
     "locate", "rm_output", "resolve", "rm_minimal", "extract", "customize",
     "rm_minimal_end", "rm_fedora_end", "blocked"}

\* Ctrl-C while the try block runs: KeyboardInterrupt is raised at the
\* current position (lines 325-327).  It is not an Exception, so the handler
\* inside template_butane (line 106) does not see it.
Interrupt ==
    /\ pc \in TryBlock
    /\ Raise("KeyboardInterrupt")
    /\ UNCHANGED <<run, latest, dirvars, fsvars, temp_butane_file, hist>>

\* Lines 331-334, then the process exits with its status.
Finally ==
    /\ pc = "finally"
    /\ temps' = IF temp_butane_file # 0 /\ temp_butane_file \in temps
                THEN temps \ {temp_butane_file} ELSE temps
    /\ temp_butane_file' = 0
    /\ pc' = "exited"
    /\ UNCHANGED <<run, latest, dirvars, fedora_iso, minimal_iso, downloads, output_iso,
                   output_ignition, locals, status, exc, hist>>

\* Upstream publishes a new release of the stream.
PublishRelease ==
    /\ latest < MaxRelease
    /\ latest' = latest + 1
    /\ UNCHANGED <<pc, run, dirvars, fsvars, procvars, status, exc, hist>>

Next ==
    \/ \E password \in Passwords, users \in SeqsUpTo(Users, MaxUsers) :
          StartRun(password, users)
    \/ \E resp \in Responses : FetchKeys(resp)
    \/ FetchKeysNoAnswer
    \/ ResolveCredentials
    \/ \E ok, undef \in BOOLEAN : Render(ok, undef)
    \/ MkStemp
    \/ \E outcome \in {"ok", "fdopen", "write"} : WriteRendered(outcome)
    \/ \E returncode \in {0, 1} : Compile(returncode)
    \/ \E returncode \in {0, 1} : Validate(returncode)
    \/ ReuseCachedImage
    \/ \E returncode \in {0, 1}, wrote \in BOOLEAN : Download(returncode, wrote)
    \/ LocateDownloaded
    \/ RemoveOldOutput
    \/ \E ok \in BOOLEAN : ResolveRelease(ok)
    \/ ResolveReleaseNoAnswer
    \/ RemoveOldMinimal
    \/ \E returncode \in {0, 1} : Extract(returncode)
    \/ \E returncode \in {0, 1} : Customize(returncode)
    \/ RemoveMinimal
    \/ RemoveFedora
    \/ Interrupt
    \/ Finally
    \/ PublishRelease

Spec == Init /\ [][Next]_vars

\* The credential and render stages of one run in a fresh working directory,
\* with longer key lists than Spec affords.
KeyResponses ==
    [kind : {"http"}, code : {200, 204},
     body : SeqsUpTo(0..KeyCount, KeyLines)]
    \cup [kind : {"URLError", "ConnectionReset"}, code : {0}, body : {<<>>}]

NextKeys ==
    \/ \E password \in Passwords, users \in SeqsUpTo(Users, MaxUsers) :
          run = 0 /\ StartRun(password, users)
    \/ \E resp \in KeyResponses : FetchKeys(resp)
    \/ ResolveCredentials
    \/ \E ok, undef \in BOOLEAN : Render(ok, undef)
    \/ Finally

SpecKeys == Init /\ [][NextKeys]_vars

\* manifest_files on every manifests directory drawn from the entry pool.
InitManifests ==
    /\ InitPipeline
    /\ manifests \in Directories
    /\ names = NoResult

CallManifestFiles ==
    /\ names = NoResult
    /\ names' = manifest_files(manifests)
    /\ UNCHANGED <<pc, run, latest, fsvars, procvars, status, exc, hist,
                   manifests>>

NextManifests == CallManifestFiles

SpecManifests == InitManifests /\ [][NextManifests]_vars

TypeOK ==
    /\ pc \in TryBlock \cup {"idle", "finally", "exited"}
    /\ run \in 0..MaxRuns
    /\ latest \in Releases
    /\ status \in {-1, 0, 1}
    /\ exc \in Exceptions \cup {"none", "SystemExit", "KeyboardInterrupt"}

(* ---------------------------- properties ------------------------------- *)

Exited == pc = "exited"
Tools(h) == {h.calls[n].tool : n \in DOMAIN h.calls}
Stages ==
    {"credentials", "render", "compile", "validate", "acquire", "resolve",
     "extract", "customize"}

\* C1: at process exit the rendered-template temporary file this run created
\* no longer exists, whatever way the run ended.
C1_RenderedTemplateRemovedAtExit ==
    Exited => run \notin temps

\* C2: at process exit minimal.iso is absent from the working directory,
\* after a successful run and after a failed or interrupted one.
C2_MinimalImageAbsentAtExit ==
    Exited => ~exists(minimal_iso)

\* C3: when a run that reused or downloaded the base image ends, the cache
\* file fedora-coreos.iso still exists.
C3_CachedImagePreservedAtExit ==
    (Exited /\ hist.acquire \in {"reused", "downloaded"}) => exists(fedora_iso)

\* C4: in a run that reaches the acquire-base-image stage while the cache
\* file exists, the downloader is never invoked and the file given to the
\* extract stage is that existing file.
C4_CacheHitSkipsDownload ==
    (hist.atAcquire # <<>> /\ exists(hist.atAcquire[1])) =>
        /\ "download" \notin Tools(hist)
        /\ hist.extract # <<>> => hist.extract[1].base = hist.atAcquire[1]

C4_Witness ==
    /\ hist.atAcquire # <<>>
    /\ exists(hist.atAcquire[1])
    /\ hist.extract # <<>>
    /\ hist.acquire = "reused"

\* C5: with no secret and no identity yielding a key the run never calls the
\* renderer or an external tool and exits non-zero; and the renderer is only
\* called with a secret hash or a non-empty key list.
C5_NoCredentialNoBuild ==
    /\ (run > 0 /\ ~hist.secret /\ ~hist.keysServed) =>
          /\ ~hist.rendered
          /\ hist.calls = <<>>
          /\ hist.stagesOK = {}
          /\ Exited => status # 0
    /\ render_context # <<>> =>
          \/ render_context[1].password_hash # NoHash
          \/ render_context[1].ssh_keys # <<>>

C5_Witness ==
    /\ Exited
    /\ ~hist.rendered
    /\ ~hist.secret
    /\ ~hist.keysServed
    /\ hist.fetched
    /\ exc = "ValueError"
    /\ status = 1

\* C6: the exit status is zero exactly when all eight stages succeeded and
\* nothing was raised; a tool that exited non-zero, a raised error, a missing
\* downloaded file or an interrupt gives a non-zero status.
C6_ZeroExitIffAllStagesSucceeded ==
    Exited =>
        /\ status \in {0, 1}
        /\ status = 0 <=> (hist.stagesOK = Stages /\ exc = "none")
        /\ (\E n \in DOMAIN hist.calls : ~hist.calls[n].ok) => status # 0
        /\ exc # "none" => status # 0

C6_Witness ==
    /\ Exited
    /\ status = 0
    /\ hist.stagesOK = Stages

\* C7: the tools run in the order compile, validate, download, release
\* metadata, extract, customize, each at most once, the download only without
\* a cached image, and a tool runs only when every earlier call and every
\* earlier stage of the run succeeded.
Rank(tool) ==
    CASE tool = "butane" -> 1
      [] tool = "ignition-validate" -> 2
      [] tool = "download" -> 3
      [] tool = "stream-metadata" -> 4
      [] tool = "extract" -> 5
      [] tool = "customize" -> 6

StagesBefore(tool) ==
    CASE tool = "butane" -> {"credentials", "render"}
      [] tool = "ignition-validate" -> {"credentials", "render", "compile"}
      [] tool = "download" -> {"credentials", "render", "compile", "validate"}
      [] tool = "stream-metadata" ->
            {"credentials", "render", "compile", "validate", "acquire"}
      [] tool = "extract" ->
            {"credentials", "render", "compile", "validate", "acquire", "resolve"}
      [] tool = "customize" -> Stages \ {"customize"}

C7_SequentialNoRetry ==
    /\ \A n \in DOMAIN hist.calls :
          /\ StagesBefore(hist.calls[n].tool) \subseteq hist.stagesOK
          /\ n < Len(hist.calls) =>
                /\ hist.calls[n].ok
                /\ Rank(hist.calls[n].tool) < Rank(hist.calls[n + 1].tool)
    /\ "download" \in Tools(hist) =>
          (hist.atAcquire # <<>> /\ ~exists(hist.atAcquire[1]))

C7_Witness ==
    /\ Len(hist.calls) = 6
    /\ hist.calls[6].tool = "customize"
    /\ "download" \in Tools(hist)

\* C8: the compiled configuration server.bu.ign does not exist at process
\* exit, after a successful run or a failed one.
C8_CompiledConfigAbsentAtExit ==
    Exited => ~exists(output_ignition)

\* C9: when the customize stage is invoked nothing is at the output path,
\* the file that was there before the run having been removed; an output
\* file present after a zero exit was written by this run's customize stage.
C9_OldOutputRemovedBeforeCustomize ==
    /\ hist.customizeOutput # <<>> => ~exists(hist.customizeOutput[1])
    /\ (Exited /\ status = 0 /\ exists(output_iso)) =>
          output_iso = File("output", run, output_iso.rel)

C9_Witness ==
    /\ hist.customizeOutput # <<>>
    /\ exists(hist.startOutput)
    /\ Exited
    /\ status = 0
    /\ exists(output_iso)

\* C10: a key fetch that fails is never fatal by itself: the run is aborted
\* in the credential stage by an error only when no secret was supplied and
\* no identity yielded a key.
C10_FailedFetchNotFatal ==
    (exc \in Exceptions /\ "credentials" \notin hist.stagesOK) =>
        (~hist.secret /\ ~hist.keysServed)

\* C11: the key sequence handed to the renderer holds exactly the distinct
\* keys the identities returned, each once, in ascending order, whatever the
\* order of the identities.
C11_KeysMergedDedupedSorted ==
    render_context # <<>> =>
        LET keys == render_context[1].ssh_keys IN
        /\ {keys[n] : n \in DOMAIN keys} = hist.served
        /\ \A m, n \in DOMAIN keys : m < n => keys[m] < keys[n]

C11_Witness ==
    /\ render_context # <<>>
    /\ render_context[1].ssh_keys = <<1, 2>>

\* C12: rendering a template that references a variable absent from the
\* render context is fatal: no rendered document, no external tool, non-zero
\* exit.
C12_UndefinedReferenceIsFatal ==
    hist.undefinedRef =>
        /\ render_context = <<>>
        /\ run \notin temps
        /\ Tools(hist) = {}
        /\ pc \in {"finally", "exited"}
        /\ status = 1

\* C13: manifest_files returns exactly the names of the entries that are
\* regular files, do not start with a dot and end in .yaml or .yml, in
\* lexicographic order without duplicates; for an absent directory it
\* returns the empty list and raises nothing.
C13_ManifestFilesListing ==
    names # NoResult =>
        /\ manifests.kind = "absent" => names = Returned(<<>>)
        /\ manifests.kind = "dir" =>
              /\ names.state = "returned"
              /\ {names.value[n] : n \in DOMAIN names.value} =
                    {e.name : e \in
                        {x \in manifests.entries :
                           /\ x.kind = "file"
                           /\ x.name[1] # "."
                           /\ \E ext \in YamlSuffixes :
                                 /\ Len(x.name) > Len(ext)
                                 /\ SubSeq(lower(x.name),
                                           Len(x.name) - Len(ext) + 1,
                                           Len(x.name)) = ext}}
              /\ \A m, n \in DOMAIN names.value :
                    m < n => str_less(names.value[m], names.value[n])

C13_Witness ==
    /\ manifests.kind = "dir"
    /\ \E x, y, z \in manifests.entries :
          /\ startswith_dot(x.name)
          /\ y.kind = "dir"
          /\ suffix(z.name) = <<".", "t", "x", "t">>
    /\ names = Returned(<< <<"A", ".", "Y", "A", "M", "L">>,
                           <<"a", ".", "y", "a", "m", "l">>,
                           <<"b", ".", "y", "m", "l">> >>)

\* C14: every network call carries a timeout, so an endpoint that never
\* answers makes the call fail and the pipeline is never left waiting on it.
C14_NoCallWaitsForEver ==
    pc # "blocked"

\* C15: a run asks the stream metadata for the latest release at most once
\* and only after the base image was reused or downloaded; extract is the
\* next tool after it and gets the rootfs URL of exactly that release on the
\* stable stream for x86_64; a run that failed before the base image was
\* acquired has not contacted the metadata service.
C15_ReleaseResolvedOnceBeforeExtract ==
    LET asked == {n \in DOMAIN hist.calls : hist.calls[n].tool = "stream-metadata"}
    IN
    /\ Cardinality(asked) <= 1
    /\ Len(hist.resolved) <= 1
    /\ asked # {} => hist.acquire \in {"reused", "downloaded"}
    /\ \A n \in DOMAIN hist.calls :
          /\ (n \in asked /\ n < Len(hist.calls)) =>
                hist.calls[n + 1].tool = "extract"
          /\ hist.calls[n].tool = "extract" =>
                (n - 1 \in asked /\ hist.calls[n - 1].ok)
    /\ \A n \in DOMAIN hist.extract :
          /\ Len(hist.resolved) = 1
          /\ hist.extract[n].rootfs_url =
                [stream |-> "stable", arch |-> "x86_64",
                 release |-> hist.resolved[1],
                 filename |-> <<"fedora-coreos-", hist.resolved[1],
                                "-live-rootfs.", "x86_64", ".img">>]

C15_Witness ==
    /\ hist.acquire = "reused"
    /\ hist.resolved = <<2>>
    /\ Len(hist.extract) = 1
    /\ hist.calls[Len(hist.calls)].tool = "customize"

\* C16: the release of the base image and the release in the rootfs URL need
\* not agree at extract.  A reused cache reaches extract as the run found it,
\* an image of the release that was latest when an earlier run downloaded
\* it, while the URL names the release that is latest now; nothing compares
\* the two or refreshes the cache.
C16_CachedImageUsedAsFound ==
    \A n \in DOMAIN hist.extract :
        LET e == hist.extract[n] IN
        /\ e.base.rel <= e.rootfs_url.release
        /\ hist.acquire = "reused" =>
              /\ e.base = hist.startFedora
              /\ e.base.run < run
              /\ "download" \notin Tools(hist)

\* A run that reused an image of release 1 with the rootfs URL of release 2
\* and succeeded.
C16_Witness ==
    /\ Exited
    /\ status = 0
    /\ hist.acquire = "reused"
    /\ Len(hist.extract) = 1
    /\ hist.extract[1].base.kind = "base"
    /\ hist.extract[1].base.rel = 1
    /\ hist.extract[1].rootfs_url.release = 2

\* C17: when the acquire stage completes through the download path, the
\* cache file fedora-coreos.iso is the image the downloader produced in this
\* run, whatever earlier runs left in the working directory; if the download
\* left no image, extract is not invoked.
C17_CacheIsThisRunsDownload ==
    /\ (pc = "rm_output" /\ hist.acquire = "downloaded") =>
          (fedora_iso.kind = "base" /\ fedora_iso.run = run)
    /\ \A n \in DOMAIN hist.extract :
          hist.acquire = "downloaded" => hist.extract[n].base.run = run

====
